---- MODULE Spec2Model ----
(***************************************************************************)
(* The POSIX message-queue wrappers of src/trace/posixmq.c and the mqsend  *)
(* command of src/spack_repo/trace_repo/packages/mqsend/mqsend.c.          *)
(*                                                                         *)
(* The kernel side of the queue API is state of the model: a namespace     *)
(* that maps names to queue objects, the queue objects themselves          *)
(* (attributes and queued messages), and one descriptor table per process. *)
(* The library is called from one process (fds); mqsend runs as a second   *)
(* process (cli).  A call that blocks is an action that is not enabled.    *)
(***************************************************************************)
EXTENDS Integers, Sequences, FiniteSets, TLC

\* ---- bounds --------------------------------------------------------------
\* the largest mq_msgsize a caller asks for
MaxMsgSize == 1
\* the largest mq_maxmsg a caller asks for
MaxDepth == 2
\* descriptors of the process that calls the library
MaxFd == 2
\* the kernel's limit on the number of queues (queues_max), scaled down
MaxQ == 2
\* MQ_PRIO_MAX, scaled down: the valid priorities are 0 .. PrioMax - 1
PrioMax == 2
\* width of size_t in bits, scaled down
SizeBits == 8

\* ---- value sets ----------------------------------------------------------
Names == {"/q"}
\* the calls pass message bytes through untouched: messages differ by length
Bytes == {"a"}
NUL == "nul"
NoQueue == 0
QIds == 1 .. MaxQ
Handles == 0 .. (MaxFd - 1)
CliHandles == {0}
SIZE_MAX == 2^SizeBits - 1

RECURSIVE SeqsUpTo(_, _)
SeqsUpTo(S, n) ==
  IF n = 0 THEN {<<>>}
  ELSE LET shorter == SeqsUpTo(S, n - 1)
       IN shorter \cup {Append(s, x) : s \in {t \in shorter : Len(t) = n - 1}, x \in S}

\* message buffers a caller passes: one byte longer than any queue accepts
Buffers == SeqsUpTo(Bytes, MaxMsgSize + 1)
\* attribute values a caller passes: 0 is rejected
SizeArgs == 0 .. MaxMsgSize
DepthArgs == 0 .. MaxDepth
PrioArgs == 0 .. PrioMax
Caps == 0 .. (MaxMsgSize + 1)
\* what the caller of posixmq_recv holds in its priority variable beforehand
UnsetPrio == {0}

VARIABLES
  names,   \* the namespace: name -> queue object, NoQueue when absent
  queues,  \* queue object -> [live, msgsize, maxmsg, msgs]
  fds,     \* descriptor table of the library's caller: handle -> queue object
  last,    \* the most recent library call: operation, arguments, results
  cli      \* the mqsend process

vars == <<names, queues, fds, last, cli>>

FreeQ == [live |-> FALSE, msgsize |-> 0, maxmsg |-> 0, msgs |-> <<>>]

\* a queue object lives while it is named or some descriptor refers to it
Reap(qs, ns, tab, ctab) ==
  [q \in QIds |->
     IF (\E n \in Names : ns[n] = q) \/ (\E h \in DOMAIN tab : tab[h] = q)
        \/ (\E h \in DOMAIN ctab : ctab[h] = q)
     THEN qs[q] ELSE FreeQ]

Min(S) == CHOOSE x \in S : \A y \in S : x <= y

\* conversion of a signed result to size_t
ToSizeT(x) == x % (SIZE_MAX + 1)

\* ---- the kernel's side of the calls the code makes -----------------------
\* `tab` is the descriptor table of the calling process.

AttrOk(attr) == attr.mq_maxmsg > 0 /\ attr.mq_msgsize > 0

\* mq_open(name, O_RDWR) and mq_open(name, O_CREAT | O_RDWR, 0644, &attr);
\* on creation the limit on the number of queues is tested before the
\* attributes
mq_open(name, creat, attr, tab) ==
  LET free == {h \in DOMAIN tab : tab[h] = NoQueue}
      freeq == {q \in QIds : ~queues[q].live}
      fail(e) == [ret |-> -1, errno |-> e, created |-> FALSE,
                  names |-> names, queues |-> queues, tab |-> tab]
  IN IF free = {} THEN fail("EMFILE")
     ELSE IF names[name] # NoQueue
     THEN [ret |-> Min(free), errno |-> "OK", created |-> FALSE,
           names |-> names, queues |-> queues,
           tab |-> [tab EXCEPT ![Min(free)] = names[name]]]
     ELSE IF ~creat THEN fail("ENOENT")
     ELSE IF freeq = {} THEN fail("ENOSPC")
     ELSE IF ~AttrOk(attr) THEN fail("EINVAL")
     ELSE [ret |-> Min(free), errno |-> "OK", created |-> TRUE,
           names |-> [names EXCEPT ![name] = Min(freeq)],
           queues |-> [queues EXCEPT ![Min(freeq)] =
                         [live |-> TRUE, msgsize |-> attr.mq_msgsize,
                          maxmsg |-> attr.mq_maxmsg, msgs |-> <<>>]],
           tab |-> [tab EXCEPT ![Min(free)] = Min(freeq)]]

ValidMqd(mqd, tab) == mqd \in DOMAIN tab /\ tab[mqd] # NoQueue

\* mq_getattr(mqd, &attrs): on failure the caller's struct is left as it was
mq_getattr(mqd, attrs, tab) ==
  IF ~ValidMqd(mqd, tab) THEN [ret |-> -1, errno |-> "EBADF", attrs |-> attrs]
  ELSE [ret |-> 0, errno |-> "OK",
        attrs |-> [mq_maxmsg |-> queues[tab[mqd]].maxmsg,
                   mq_msgsize |-> queues[tab[mqd]].msgsize]]

mq_close(mqd, tab) ==
  IF ~ValidMqd(mqd, tab) THEN [ret |-> -1, errno |-> "EBADF", tab |-> tab]
  ELSE [ret |-> 0, errno |-> "OK", tab |-> [tab EXCEPT ![mqd] = NoQueue]]

mq_unlink(name) ==
  IF names[name] = NoQueue THEN [ret |-> -1, errno |-> "ENOENT", names |-> names]
  ELSE [ret |-> 0, errno |-> "OK", names |-> [names EXCEPT ![name] = NoQueue]]

\* msgs holds the queued messages oldest first; the one delivered next is the
\* oldest among those of the highest priority
Pick(msgs) ==
  Min({i \in 1 .. Len(msgs) : \A j \in 1 .. Len(msgs) : msgs[j].prio <= msgs[i].prio})

Remove(msgs, i) == SubSeq(msgs, 1, i - 1) \o SubSeq(msgs, i + 1, Len(msgs))

\* mq_send(mqd, msg, size, prio); block = the call waits for room
mq_send(mqd, msg, size, prio, tab) ==
  LET fail(e) == [ret |-> -1, errno |-> e, block |-> FALSE, queues |-> queues]
  IN IF prio >= PrioMax THEN fail("EINVAL")
     ELSE IF ~ValidMqd(mqd, tab) THEN fail("EBADF")
     ELSE IF size > queues[tab[mqd]].msgsize THEN fail("EMSGSIZE")
     ELSE IF Len(queues[tab[mqd]].msgs) >= queues[tab[mqd]].maxmsg
     THEN [ret |-> 0, errno |-> "OK", block |-> TRUE, queues |-> queues]
     ELSE [ret |-> 0, errno |-> "OK", block |-> FALSE,
           queues |-> [queues EXCEPT ![tab[mqd]].msgs =
                         Append(@, [data |-> SubSeq(msg, 1, size), prio |-> prio])]]

\* mq_receive(mqd, buf, cap, &prio); buf and prio are the caller's and are
\* written only on success; block = the call waits for a message
mq_receive(mqd, buf, cap, prio, tab) ==
  LET fail(e) == [ret |-> -1, errno |-> e, block |-> FALSE, queues |-> queues,
                  buf |-> buf, prio |-> prio]
  IN IF ~ValidMqd(mqd, tab) THEN fail("EBADF")
     ELSE IF cap < queues[tab[mqd]].msgsize THEN fail("EMSGSIZE")
     ELSE IF queues[tab[mqd]].msgs = <<>>
     THEN [ret |-> 0, errno |-> "OK", block |-> TRUE, queues |-> queues,
           buf |-> buf, prio |-> prio]
     ELSE LET i == Pick(queues[tab[mqd]].msgs)
              m == queues[tab[mqd]].msgs[i]
          IN [ret |-> Len(m.data), errno |-> "OK", block |-> FALSE,
              queues |-> [queues EXCEPT ![tab[mqd]].msgs = Remove(@, i)],
              buf |-> m.data \o SubSeq(buf, Len(m.data) + 1, Len(buf)),
              prio |-> m.prio]

\* ---- src/trace/posixmq.c --------------------------------------------------
\* last.oserr is the errno of the call's failed system call, "OK" when none
\* failed; last.printed is what the call wrote to standard output; last.args
\* are the arguments of a call that returned 0 (and of every unlink), last.out
\* what it stored through its out-parameters.

NoCall == [op |-> "none", ret |-> 0, oserr |-> "OK", printed |-> "", args |-> <<>>, out |-> <<>>]

Zeros(n) == [i \in 1 .. n |-> NUL]

\* what mq_getattr finds in the attrs struct of posixmq_open_existing, which
\* the code does not initialise
UninitAttrs == {[mq_maxmsg |-> 0, mq_msgsize |-> 0], [mq_maxmsg |-> MaxDepth, mq_msgsize |-> 0]}

\* the two sizes taken for each other
create_attrs_swapped(max_msg_size, max_queue_size) ==
  [mq_maxmsg |-> max_msg_size, mq_msgsize |-> max_queue_size]

\* struct mq_attr attrs = {.mq_maxmsg = max_queue_size, .mq_msgsize = max_msg_size}
create_attrs(max_msg_size, max_queue_size) ==
  [mq_maxmsg |-> max_queue_size, mq_msgsize |-> max_msg_size]

posixmq_open_create(name, max_msg_size, max_queue_size) ==
  LET attrs == create_attrs(max_msg_size, max_queue_size)
      r == mq_open(name, TRUE, attrs, fds)
      mqd == r.ret
      args == [name |-> name, max_msg_size |-> max_msg_size,
               max_queue_size |-> max_queue_size, created |-> r.created]
  IN /\ names' = r.names
     /\ queues' = r.queues
     /\ fds' = r.tab
     /\ last' = IF mqd < 0
                THEN [op |-> "open_create", ret |-> -1, oserr |-> r.errno,
                      printed |-> r.errno, args |-> <<>>, out |-> <<>>]
                ELSE [op |-> "open_create", ret |-> 0, oserr |-> r.errno,
                      printed |-> "", args |-> args, out |-> [mq_id_out |-> mqd]]
     /\ UNCHANGED cli

\* the open of posixmq_open_create, with the kernel's default attributes
existing_mq_open_creat(name) ==
  mq_open(name, TRUE, [mq_maxmsg |-> MaxDepth, mq_msgsize |-> MaxMsgSize], fds)

\* mq_open(name, O_RDWR)
existing_mq_open(name) == mq_open(name, FALSE, <<>>, fds)

posixmq_open_existing(name, junk) ==
  LET r == existing_mq_open(name)
      mqd == r.ret
      g == mq_getattr(mqd, junk, r.tab)
      args == [name |-> name]
  IN /\ names' = r.names
     /\ queues' = r.queues
     /\ fds' = r.tab
     /\ last' = IF mqd < 0
                THEN [op |-> "open_existing", ret |-> -1, oserr |-> r.errno,
                      printed |-> r.errno, args |-> <<>>, out |-> <<>>]
                ELSE [op |-> "open_existing", ret |-> 0, oserr |-> g.errno,
                      printed |-> "", args |-> args,
                      out |-> [mq_id_out |-> mqd,
                               max_queue_size_out |-> g.attrs.mq_maxmsg,
                               max_msg_size_out |-> g.attrs.mq_msgsize]]
     /\ UNCHANGED cli

posixmq_close(mq) ==
  LET r == mq_close(mq, fds)
      args == [mq |-> mq]
  IN /\ fds' = r.tab
     /\ queues' = Reap(queues, names, r.tab, cli.tab)
     /\ last' = IF r.ret < 0
                THEN [op |-> "close", ret |-> -1, oserr |-> r.errno,
                      printed |-> r.errno, args |-> <<>>, out |-> <<>>]
                ELSE [op |-> "close", ret |-> 0, oserr |-> r.errno,
                      printed |-> "", args |-> args, out |-> <<>>]
     /\ UNCHANGED <<names, cli>>

\* the test of the result reversed
posixmq_unlink_wrong_test(name) ==
  LET r == mq_unlink(name)
      args == [name |-> name]
  IN /\ names' = r.names
     /\ queues' = Reap(queues, r.names, fds, cli.tab)
     /\ last' = IF r.ret > 0
                THEN [op |-> "unlink", ret |-> -1, oserr |-> r.errno,
                      printed |-> r.errno, args |-> args, out |-> <<>>]
                ELSE [op |-> "unlink", ret |-> 0, oserr |-> r.errno,
                      printed |-> "", args |-> args, out |-> <<>>]
     /\ UNCHANGED <<fds, cli>>

posixmq_unlink(name) ==
  LET r == mq_unlink(name)
      args == [name |-> name]
  IN /\ names' = r.names
     /\ queues' = Reap(queues, r.names, fds, cli.tab)
     /\ last' = IF r.ret < 0
                THEN [op |-> "unlink", ret |-> -1, oserr |-> r.errno,
                      printed |-> r.errno, args |-> args, out |-> <<>>]
                ELSE [op |-> "unlink", ret |-> 0, oserr |-> r.errno,
                      printed |-> "", args |-> args, out |-> <<>>]
     /\ UNCHANGED <<fds, cli>>

posixmq_send(mq, msg, size, priority) ==
  LET r == mq_send(mq, msg, size, priority, fds)
      args == [mq |-> mq, data |-> SubSeq(msg, 1, size), size |-> size,
               priority |-> priority]
  IN /\ ~r.block
     /\ queues' = r.queues
     /\ last' = IF r.ret < 0
                THEN [op |-> "send", ret |-> -1, oserr |-> r.errno,
                      printed |-> r.errno, args |-> <<>>, out |-> <<>>]
                ELSE [op |-> "send", ret |-> 0, oserr |-> r.errno,
                      printed |-> "", args |-> args, out |-> <<>>]
     /\ UNCHANGED <<names, fds, cli>>

\* the length received not stored
posixmq_recv_size_kept(mq, size_inout, priority) ==
  LET r == mq_receive(mq, Zeros(size_inout), size_inout, priority, fds)
      args == [mq |-> mq, size_inout |-> size_inout]
  IN /\ ~r.block
     /\ queues' = r.queues
     /\ last' = [op |-> "recv", ret |-> 0, oserr |-> r.errno,
                 printed |-> "", args |-> args,
                 out |-> [size_inout |-> size_inout, buf_out |-> r.buf,
                          priority_out |-> r.prio]]
     /\ UNCHANGED <<names, fds, cli>>

\* size_inout holds the capacity of buf_out on entry; priority is what the
\* caller's priority_out holds on entry
posixmq_recv(mq, size_inout, priority) ==
  LET r == mq_receive(mq, Zeros(size_inout), size_inout, priority, fds)
      res == ToSizeT(r.ret)
      args == [mq |-> mq, size_inout |-> size_inout]
  IN /\ ~r.block
     /\ queues' = r.queues
     /\ last' = IF res < 0
                THEN [op |-> "recv", ret |-> -1, oserr |-> r.errno,
                      printed |-> r.errno, args |-> <<>>,
                      out |-> [size_inout |-> size_inout, buf_out |-> r.buf,
                               priority_out |-> r.prio]]
                ELSE [op |-> "recv", ret |-> 0, oserr |-> r.errno,
                      printed |-> "", args |-> args,
                      out |-> [size_inout |-> res, buf_out |-> r.buf,
                               priority_out |-> r.prio]]
     /\ UNCHANGED <<names, fds, cli>>

\* ---- src/spack_repo/trace_repo/packages/mqsend/mqsend.c -------------------
\* argv is the whole argument vector, argv[1] being the program name (the
\* code's argv[0]); the message and the priority are C strings, sequences of
\* characters ending in NUL.

CStr(s) == Append(s, NUL)

RECURSIVE strlen_from(_, _)
strlen_from(s, i) == IF s[i] = NUL THEN i - 1 ELSE strlen_from(s, i + 1)
strlen(s) == strlen_from(s, 1)

DigitVal == [c \in {"0", "1", "2", "7"} |->
               IF c = "0" THEN 0 ELSE IF c = "1" THEN 1 ELSE IF c = "2" THEN 2 ELSE 7]

RECURSIVE atoi_digits(_, _, _)
atoi_digits(s, i, acc) ==
  IF s[i] \in DOMAIN DigitVal THEN atoi_digits(s, i + 1, acc * 10 + DigitVal[s[i]])
  ELSE acc

RECURSIVE atoi_from(_, _)
atoi_from(s, i) ==
  IF s[i] = " " THEN atoi_from(s, i + 1)
  ELSE IF s[i] = "-" THEN 0 - atoi_digits(s, i + 1, 0)
  ELSE IF s[i] = "+" THEN atoi_digits(s, i + 1, 0)
  ELSE atoi_digits(s, i, 0)
atoi(s) == atoi_from(s, 1)

PrioStrs == {CStr(<<"0">>), CStr(<<"1">>), CStr(<<"7">>), CStr(<<"x">>),
             CStr(<<" ", "-", "2">>)}

ArgVectors ==
  {<<"mqsend", n, CStr(m), p>> : n \in Names, m \in Buffers, p \in PrioStrs}
  \cup {<<"mqsend">>, <<"mqsend", "/q">>, <<"mqsend", "/q", CStr(<<"a">>)>>,
        <<"mqsend", "/q", CStr(<<"a">>), CStr(<<"1">>), CStr(<<"1">>)>>}

CliClosed == [h \in CliHandles |-> NoQueue]

\* the process after main returned: cli.calls are the queue calls it made,
\* cli.priority what it parsed
CliExit(status, stderr, calls, priority) ==
  [pc |-> "exited", tab |-> CliClosed, msg |-> <<>>, priority |-> priority,
   status |-> status, stderr |-> stderr, calls |-> calls]

\* too many arguments let through
usage_too_few(argc) == argc < 4

\* if (argc != 4)
usage(argc) == argc # 4

\* the queue created when it is absent
cli_mq_open_creat(queue_name) ==
  mq_open(queue_name, TRUE, [mq_maxmsg |-> MaxDepth, mq_msgsize |-> MaxMsgSize],
          CliClosed)

\* mq_open(queue_name, O_RDWR)
cli_mq_open(queue_name) == mq_open(queue_name, FALSE, <<>>, CliClosed)

\* the parsed priority sent
cli_mq_send_parsed(mqd, msg, msg_len, priority) ==
  mq_send(mqd, msg, msg_len, priority, cli.tab)

\* mq_send(mqd, msg, msg_len, 1)
cli_mq_send(mqd, msg, msg_len, priority) == mq_send(mqd, msg, msg_len, 1, cli.tab)

\* main, up to the open of the queue
main_open(argv) ==
  LET argc == Len(argv)
  IN /\ cli.pc # "opened"
     /\ IF usage(argc)
        THEN /\ cli' = CliExit(1, [text |-> "Usage"], <<>>, 0)
             /\ UNCHANGED <<names, queues>>
        ELSE LET queue_name == argv[2]
                 msg == argv[3]
                 priority == atoi(argv[4])
                 r == cli_mq_open(queue_name)
                 mqd == r.ret
             IN /\ names' = r.names
                /\ queues' = r.queues
                /\ cli' = IF mqd < 0
                          THEN CliExit(1, [text |-> "Opening queue failed",
                                           queue_name |-> queue_name,
                                           errno |-> r.errno], <<"mq_open">>,
                                       priority)
                          ELSE [pc |-> "opened", tab |-> r.tab, msg |-> msg,
                                priority |-> priority, status |-> 0,
                                stderr |-> <<>>, calls |-> <<"mq_open">>]
     /\ UNCHANGED <<fds, last>>

\* main, from the send to its return statement.  The process still holds its
\* descriptor (cli.pc stays "opened"); cli.status is the value main returns.
main_send ==
  LET mqd == Min({h \in CliHandles : cli.tab[h] # NoQueue})
      msg_len == strlen(cli.msg)
      r == cli_mq_send(mqd, cli.msg, msg_len, cli.priority)
      send_res == r.ret
  IN /\ cli.pc = "opened" /\ cli.calls = <<"mq_open">>
     /\ ~r.block
     /\ queues' = r.queues
     /\ cli' = IF send_res # 0
               THEN [cli EXCEPT !.msg = <<>>, !.status = 1,
                                !.stderr = [text |-> "Message send failed",
                                            errno |-> r.errno],
                                !.calls = <<"mq_open", "mq_send">>]
               ELSE [cli EXCEPT !.msg = <<>>, !.status = 0,
                                !.calls = <<"mq_open", "mq_send">>]
     /\ UNCHANGED <<names, fds, last>>

\* the process ends after main returned: the kernel closes its descriptor, and
\* a queue that is unnamed and no longer referenced goes away
main_exit ==
  /\ cli.pc = "opened" /\ cli.calls = <<"mq_open", "mq_send">>
  /\ cli' = CliExit(cli.status, cli.stderr, cli.calls, cli.priority)
  /\ queues' = Reap(queues, names, fds, CliClosed)
  /\ UNCHANGED <<names, fds, last>>

\* ---- specifications ------------------------------------------------------
Init ==
  /\ names = [n \in Names |-> NoQueue]
  /\ queues = [q \in QIds |-> FreeQ]
  /\ fds = [h \in Handles |-> NoQueue]
  /\ last = NoCall
  /\ cli = [pc |-> "start", tab |-> CliClosed, msg |-> <<>>, priority |-> 0,
            status |-> 0, stderr |-> <<>>, calls |-> <<>>]

OpenCreate == \E n \in Names, s \in SizeArgs, d \in DepthArgs : posixmq_open_create(n, s, d)
OpenExisting == \E n \in Names, junk \in UninitAttrs : posixmq_open_existing(n, junk)
Close == \E mq \in Handles : posixmq_close(mq)
Unlink == \E n \in Names : posixmq_unlink(n)
Send == \E mq \in Handles, msg \in Buffers, p \in PrioArgs :
          posixmq_send(mq, msg, Len(msg), p)
Recv == \E mq \in Handles, cap \in Caps, p \in UnsetPrio : posixmq_recv(mq, cap, p)
CliOpen == \E argv \in ArgVectors : main_open(argv)
CliSend == main_send
CliEnd == main_exit

Library == OpenCreate \/ OpenExisting \/ Close \/ Unlink \/ Send \/ Recv

Next == Library
Spec == Init /\ [][Next]_vars

\* mqsend beside a process that creates, closes and removes the queues
CliNext == OpenCreate \/ Close \/ Unlink \/ CliOpen \/ CliSend \/ CliEnd
CliSpec == Init /\ [][CliNext]_vars

\* ---- properties ----------------------------------------------------------
Open(h) == ValidMqd(h, fds)
FreeHandle == \E h \in Handles : fds[h] = NoQueue
Named(q) == \E n \in Names : names[n] = q

\* C1: a send that succeeds on an empty queue, followed by a receive on a
\* handle of the same queue into a buffer of at least max_message_size bytes:
\* the receive returns 0, stores the length sent, fills the buffer with the
\* bytes sent and stores the priority sent.
C1_SendRecvRoundTrip ==
  [][\A h \in Handles, cap \in Caps, p \in UnsetPrio :
       ( /\ last.op = "send" /\ last.ret = 0 /\ last'.op = "recv"
         /\ Open(h) /\ Open(last.args.mq) /\ fds[h] = fds[last.args.mq]
         /\ Len(queues[fds[h]].msgs) = 1
         /\ cap >= queues[fds[h]].msgsize
         /\ posixmq_recv(h, cap, p) )
       => /\ last'.ret = 0
          /\ last'.out.size_inout = last.args.size
          /\ SubSeq(last'.out.buf_out, 1, last.args.size) = last.args.data
          /\ last'.out.priority_out = last.args.priority]_vars

C1_Witness ==
  /\ last.op = "recv" /\ last.ret = 0 /\ last.oserr = "OK"
  /\ last.out.size_inout = 1 /\ last.out.buf_out = <<"a", NUL>>
  /\ last.out.priority_out = 1
  /\ Open(last.args.mq) /\ queues[fds[last.args.mq]].msgs = <<>>

\* C2: a receive on a queue that holds a message, with a buffer capacity
\* smaller than the queue's max_message_size, returns -1 and dequeues nothing.
C2_SmallBufferFails ==
  [][\A h \in Handles, cap \in Caps, p \in UnsetPrio :
       ( /\ last'.op = "recv" /\ Open(h) /\ queues[fds[h]].msgs # <<>>
         /\ cap < queues[fds[h]].msgsize
         /\ posixmq_recv(h, cap, p) )
       => last'.ret = -1 /\ queues' = queues]_vars

\* C3 as claimed: after a create-or-open of a name with valid attributes that
\* returned 0, a following open-existing of the name (a descriptor being free)
\* returns 0 and the attributes that were passed to create-or-open, whatever
\* the namespace held before.
C3_AttrsAsSupplied ==
  [][\A n \in Names, junk \in UninitAttrs :
       ( /\ last.op = "open_create" /\ last.ret = 0 /\ last.args.name = n
         /\ AttrOk(create_attrs(last.args.max_msg_size, last.args.max_queue_size))
         /\ last'.op = "open_existing" /\ FreeHandle
         /\ posixmq_open_existing(n, junk) )
       => /\ last'.ret = 0
          /\ last'.out.max_msg_size_out = last.args.max_msg_size
          /\ last'.out.max_queue_size_out = last.args.max_queue_size]_vars

\* C3 amended: the following open-existing returns 0 and the attributes of the
\* queue the name denotes; they are the ones passed to create-or-open when
\* that call created the queue.
C3_AttrsOfCreation ==
  [][\A n \in Names, junk \in UninitAttrs :
       ( /\ last.op = "open_create" /\ last.ret = 0 /\ last.args.name = n
         /\ AttrOk(create_attrs(last.args.max_msg_size, last.args.max_queue_size))
         /\ last'.op = "open_existing" /\ FreeHandle
         /\ posixmq_open_existing(n, junk) )
       => /\ last'.ret = 0
          /\ names[n] # NoQueue
          /\ last'.out.max_msg_size_out = queues[names[n]].msgsize
          /\ last'.out.max_queue_size_out = queues[names[n]].maxmsg
          /\ last.args.created =>
               /\ last'.out.max_msg_size_out = last.args.max_msg_size
               /\ last'.out.max_queue_size_out = last.args.max_queue_size]_vars

C3_Witness ==
  /\ last.op = "open_existing" /\ last.ret = 0
  /\ last.out.max_msg_size_out = 1 /\ last.out.max_queue_size_out = 2
  /\ last.out.mq_id_out = 1

\* C7: unlink of a name that is not in the namespace returns -1 and leaves the
\* namespace and the queues as they were; an unlink of the name that the
\* previous call unlinked returns -1.
C7_UnlinkAbsentFails ==
  [][\A n \in Names :
       /\ (last'.op = "unlink" /\ names[n] = NoQueue /\ posixmq_unlink(n))
            => last'.ret = -1 /\ names' = names /\ queues' = queues
       /\ ( /\ last'.op = "unlink" /\ last.op = "unlink" /\ last.args.name = n
            /\ posixmq_unlink(n) )
            => last'.ret = -1]_vars

C7_Witness ==
  /\ last.op = "unlink" /\ last.ret = -1 /\ last.oserr = "ENOENT"
  /\ \E q \in QIds : queues[q].live

\* the oldest of the messages of the highest priority
Oldest(msgs, i) ==
  /\ \A j \in 1 .. Len(msgs) : msgs[j].prio <= msgs[i].prio
  /\ \A j \in 1 .. (i - 1) : msgs[j].prio < msgs[i].prio

\* C8: a receive that returns 0 on a queue that holds messages removes the oldest of the queued
\* messages of the highest priority and reports its bytes and its priority.
C8_HighestOldestFirst ==
  [][\A h \in Handles, cap \in Caps, p \in UnsetPrio :
       ( /\ last'.op = "recv" /\ last'.ret = 0
         /\ Open(h) /\ queues[fds[h]].msgs # <<>>
         /\ posixmq_recv(h, cap, p) )
       => \E i \in 1 .. Len(queues[fds[h]].msgs) :
            LET msgs == queues[fds[h]].msgs
            IN /\ Oldest(msgs, i)
               /\ queues'[fds[h]].msgs = Remove(msgs, i)
               /\ last'.out.size_inout = Len(msgs[i].data)
               /\ SubSeq(last'.out.buf_out, 1, Len(msgs[i].data)) = msgs[i].data
               /\ last'.out.priority_out = msgs[i].prio]_vars

\* C9: a library call whose system call failed returns -1.
C9_FailureReturned == last.oserr # "OK" => last.ret = -1

\* C10: a successful unlink leaves every open handle on its queue, with the
\* messages the queue held; open-existing of an absent name fails; send and
\* receive on a handle of an unlinked queue act on that queue's messages; a
\* create-or-open of an absent name makes a new, empty queue and leaves the
\* queues of the open handles as they were.
C10_UnlinkKeepsOpenQueues ==
  [][/\ \A n \in Names :
          (last'.op = "unlink" /\ names[n] # NoQueue /\ posixmq_unlink(n))
          => /\ last'.ret = 0 /\ names'[n] = NoQueue /\ fds' = fds
             /\ \A h \in Handles : Open(h) => queues'[fds[h]] = queues[fds[h]]
     /\ \A n \in Names, junk \in UninitAttrs :
          ( /\ last'.op = "open_existing" /\ names[n] = NoQueue
            /\ posixmq_open_existing(n, junk) )
          => last'.ret = -1 /\ names' = names /\ fds' = fds
     /\ \A h \in Handles, msg \in Buffers, p \in PrioArgs :
          ( /\ last'.op = "send" /\ Open(h) /\ ~Named(fds[h])
            /\ Len(msg) <= queues[fds[h]].msgsize /\ p < PrioMax
            /\ posixmq_send(h, msg, Len(msg), p) )
          => /\ last'.ret = 0
             /\ queues'[fds[h]].msgs =
                  Append(queues[fds[h]].msgs, [data |-> msg, prio |-> p])
     /\ \A h \in Handles, cap \in Caps, p \in UnsetPrio :
          ( /\ last'.op = "recv" /\ Open(h) /\ ~Named(fds[h])
            /\ cap >= queues[fds[h]].msgsize
            /\ posixmq_recv(h, cap, p) )
          => \E i \in 1 .. Len(queues[fds[h]].msgs) :
               /\ last'.out.priority_out = queues[fds[h]].msgs[i].prio
               /\ last'.out.size_inout = Len(queues[fds[h]].msgs[i].data)
               /\ queues'[fds[h]].msgs = Remove(queues[fds[h]].msgs, i)
     /\ \A n \in Names, s \in SizeArgs, d \in DepthArgs :
          ( /\ last'.op = "open_create" /\ last'.ret = 0 /\ names[n] = NoQueue
            /\ posixmq_open_create(n, s, d) )
          => /\ \A h \in Handles : Open(h) =>
                  names'[n] # fds[h] /\ queues'[fds[h]] = queues[fds[h]]
             /\ queues'[names'[n]].msgs = <<>>]_vars

\* a handle that was open at the unlink has received from the unlinked queue
\* while the name denotes a new queue
C10_Witness ==
  /\ last.op = "recv" /\ last.oserr = "OK" /\ last.out.size_inout = 1
  /\ Open(last.args.mq) /\ ~Named(fds[last.args.mq])
  /\ \E n \in Names : names[n] # NoQueue /\ queues[names[n]].msgs = <<>>

\* the bytes of a C string, without its terminator
Text(s) == SubSeq(s, 1, Len(s) - 1)

\* C4: mqsend given a number of arguments other than three exits with a
\* non-zero status, having made no queue call, and leaves the namespace and
\* every queue as they were.
C4_WrongArgcExits ==
  [][\A argv \in ArgVectors :
       (Len(argv) # 4 /\ main_open(argv))
       => /\ cli'.pc = "exited" /\ cli'.status # 0
          /\ cli'.calls = <<>>
          /\ names' = names /\ queues' = queues /\ fds' = fds]_vars

C4_Witness ==
  /\ cli.pc = "exited" /\ cli.status = 1 /\ cli.calls = <<>>
  /\ cli.stderr = [text |-> "Usage"]
  /\ \E n \in Names : names[n] # NoQueue

\* C5: mqsend given the name of a queue that is not in the namespace exits
\* with a non-zero status and a diagnostic that names the queue, sends nothing
\* and creates nothing.
C5_AbsentQueueExits ==
  [][\A argv \in ArgVectors :
       (Len(argv) = 4 /\ names[argv[2]] = NoQueue /\ main_open(argv))
       => /\ cli'.pc = "exited" /\ cli'.status # 0
          /\ cli'.stderr.queue_name = argv[2]
          /\ cli'.calls = <<"mq_open">>
          /\ names' = names /\ queues' = queues]_vars

C5_Witness ==
  /\ cli.pc = "exited" /\ cli.status = 1 /\ cli.calls = <<"mq_open">>
  /\ cli.stderr = [text |-> "Opening queue failed", queue_name |-> "/q",
                   errno |-> "ENOENT"]

\* C6: a send of mqsend that succeeds puts one message on the queue it
\* opened: the bytes of the message argument without the terminator, at
\* priority 1, whatever priority was parsed; a run exits with status zero only
\* after such a send, and the exit adds no message.
C6_SendsAtPriorityOne ==
  [][/\ (main_send /\ cli'.status = 0)
          => LET q == cli.tab[0]
                 m == [data |-> Text(cli.msg), prio |-> 1]
             IN queues' = [queues EXCEPT ![q].msgs = Append(@, m)]
     /\ (main_send /\ cli'.status # 0) => queues' = queues
     /\ (cli'.pc = "exited" /\ cli'.status = 0 /\ cli' # cli)
          => /\ main_exit
             /\ cli.status = 0 /\ cli.calls = <<"mq_open", "mq_send">>
             /\ queues' = Reap(queues, names, fds, CliClosed)
     /\ (cli'.calls = <<"mq_open", "mq_send">> /\ cli.calls # cli'.calls)
          => main_send]_vars

C6_Witness ==
  /\ cli.pc = "exited" /\ cli.status = 0 /\ cli.priority = 7
  /\ \E n \in Names :
       /\ names[n] # NoQueue
       /\ queues[names[n]].msgs = <<[data |-> <<"a">>, prio |-> 1]>>

====
